---- MODULE Spec2Model ----
(***************************************************************************)
(* Model of the Matrix Inverse Calculator (matrix_inverse_gui.py).         *)
(*                                                                         *)
(* The window: the IntVar size_var, the ttk.Spinbox bound to it with       *)
(* validate="all" and validatecommand=_validate_size(%P), the handler      *)
(* _ensure_valid_size bound to <Return> and <FocusOut>, the two buttons    *)
(* and the results area.  Specification Spec is the running window,        *)
(* SpecUnit the direct calls the unit tests make.                          *)
(*                                                                         *)
(* Text is a sequence of one-character strings.  Its two readers, Python's *)
(* int() in _validate_size and Tcl 8.6's number parser behind IntVar.get,  *)
(* are modelled separately: they do not accept the same strings.           *)
(*                                                                         *)
(* The inversion routine and its verifier are not part of the source       *)
(* files; they are modelled from the specification (SpecInv).              *)
(***************************************************************************)
EXTENDS Integers, Sequences, FiniteSets, TLC

\* ------------------------------------------------------------- constants

MIN_MATRIX_SIZE == 2
MAX_MATRIX_SIZE == 5
DEFAULT_MATRIX_SIZE == 3

\* ---------------------------------------------------------------- bounds

\* Longest content the IntVar is given programmatically (unit-level checks).
MaxLen == 3
\* Longest string a single insertion (a keystroke or a paste) carries.
MaxIns == 2
\* The longest text the spinbox field is let to hold in the model.
MaxField == MaxIns + 1
\* Matrix entries handed to the inverter are the integers -MaxEntry..MaxEntry.
MaxEntry == 2

\* ------------------------------------------------------------------ text

Digits == {"0", "1", "2", "3", "4", "5", "6"}
Alphabet == Digits \cup {"-", " ", "_", ".", "i", "n", "f"}

Strings(n) == UNION {[1..k -> Alphabet] : k \in 0..n}

DigitVal(c) ==
  CASE c = "0" -> 0 [] c = "1" -> 1 [] c = "2" -> 2 [] c = "3" -> 3
    [] c = "4" -> 4 [] c = "5" -> 5 [] c = "6" -> 6 [] OTHER -> 0

DigitChar(d) ==
  CASE d = 0 -> "0" [] d = 1 -> "1" [] d = 2 -> "2" [] d = 3 -> "3"
    [] d = 4 -> "4" [] d = 5 -> "5" [] d = 6 -> "6" [] d = 7 -> "7"
    [] d = 8 -> "8" [] OTHER -> "9"

RECURSIVE LStrip(_)
LStrip(s) == IF s # <<>> /\ Head(s) = " " THEN LStrip(Tail(s)) ELSE s

RECURSIVE RStrip(_)
RStrip(s) ==
  IF s # <<>> /\ s[Len(s)] = " " THEN RStrip(SubSeq(s, 1, Len(s) - 1)) ELSE s

Strip(s) == RStrip(LStrip(s))

AllDigits(s) == \A i \in 1..Len(s) : s[i] \in Digits

\* The value of a digit string in the given base; "_" separators are skipped.
RECURSIVE BaseValue(_, _)
BaseValue(s, base) ==
  IF s = <<>> THEN 0
  ELSE LET init == SubSeq(s, 1, Len(s) - 1)
           c == s[Len(s)]
       IN IF c = "_" THEN BaseValue(init, base)
          ELSE BaseValue(init, base) * base + DigitVal(c)

\* str(n) for an integer n, as IntVar.set stores it in the Tcl variable.
RECURSIVE NatNumeral(_)
NatNumeral(n) ==
  IF n < 10 THEN <<DigitChar(n)>>
  ELSE Append(NatNumeral(n \div 10), DigitChar(n % 10))

Numeral(n) == IF n < 0 THEN <<"-">> \o NatNumeral(-n) ELSE NatNumeral(n)

\* ------------------------------------------------------ Python's int(str)

\* Digits, with single underscores allowed between two digits.
PyDigits(b) ==
  /\ b # <<>>
  /\ \A i \in 1..Len(b) : b[i] \in Digits \cup {"_"}
  /\ b[1] # "_"
  /\ b[Len(b)] # "_"
  /\ \A i \in 1..(Len(b) - 1) : ~(b[i] = "_" /\ b[i + 1] = "_")

\* int(s): surrounding whitespace stripped, an optional sign, base 10.
\* ok = FALSE stands for ValueError.
PyInt(s) ==
  LET t == Strip(s)
      neg == t # <<>> /\ Head(t) = "-"
      b == IF neg THEN Tail(t) ELSE t
  IN IF PyDigits(b)
     THEN [ok |-> TRUE, val |-> (IF neg THEN -1 ELSE 1) * BaseValue(b, 10)]
     ELSE [ok |-> FALSE, val |-> 0]

\* ------------------------------------------------ Tcl's number parser

\* tkapp.getint: a Tcl integer.  A leading 0 followed by digits is octal.
TclGetInt(s) ==
  LET t == Strip(s)
      neg == t # <<>> /\ Head(t) = "-"
      b == IF neg THEN Tail(t) ELSE t
      base == IF Len(b) > 1 /\ b[1] = "0" THEN 8 ELSE 10
  IN IF b # <<>> /\ AllDigits(b)
     THEN [ok |-> TRUE, val |-> (IF neg THEN -1 ELSE 1) * BaseValue(b, base)]
     ELSE [ok |-> FALSE, val |-> 0]

\* The position of the first "." of b, or 0.
DotAt(b) ==
  IF \E i \in 1..Len(b) : b[i] = "."
  THEN CHOOSE i \in 1..Len(b) : b[i] = "." /\ \A j \in 1..(i - 1) : b[j] # "."
  ELSE 0

\* tkapp.getdouble followed by Python's int(): a decimal number with a
\* point is truncated towards zero, an infinity cannot be converted.
\* kind: "int" (val), "TclError", "OverflowError".
TclGetDoubleInt(s) ==
  LET t == Strip(s)
      neg == t # <<>> /\ Head(t) = "-"
      b == IF neg THEN Tail(t) ELSE t
      d == DotAt(b)
      ip == IF d = 0 THEN b ELSE SubSeq(b, 1, d - 1)
      fp == IF d = 0 THEN <<>> ELSE SubSeq(b, d + 1, Len(b))
  IN IF b = <<"i", "n", "f">>
     THEN [kind |-> "OverflowError", val |-> 0]
     ELSE IF AllDigits(ip) /\ AllDigits(fp) /\ Len(ip) + Len(fp) > 0
     THEN [kind |-> "int",
           val |-> (IF neg THEN -1 ELSE 1) * BaseValue(ip, 10)]
     ELSE [kind |-> "TclError", val |-> 0]

\* IntVar.get(): getint, and on TclError int(getdouble(value)).
IntVarGet(s) ==
  LET n == TclGetInt(s)
  IN IF n.ok THEN [kind |-> "int", val |-> n.val] ELSE TclGetDoubleInt(s)

\* ------------------------------------------- the spinbox's arrow buttons

\* The longest prefix of b made of digits.
RECURSIVE DigitRun(_)
DigitRun(b) ==
  IF b # <<>> /\ Head(b) \in Digits THEN <<Head(b)>> \o DigitRun(Tail(b))
  ELSE <<>>

RECURSIVE Pow10(_)
Pow10(k) == IF k = 0 THEN 1 ELSE 10 * Pow10(k - 1)

\* [scan $text %f]: leading whitespace skipped, then the longest prefix that
\* is a decimal number.  The value is num/den; kind "none" when nothing
\* converts, "inf" for an infinity.
ScanF(s) ==
  LET t == LStrip(s)
      neg == t # <<>> /\ Head(t) = "-"
      b == IF neg THEN Tail(t) ELSE t
      ip == DigitRun(b)
      rest == SubSeq(b, Len(ip) + 1, Len(b))
      fp == IF rest # <<>> /\ Head(rest) = "." THEN DigitRun(Tail(rest))
            ELSE <<>>
      sign == IF neg THEN -1 ELSE 1
  IN IF Len(b) >= 3 /\ SubSeq(b, 1, 3) = <<"i", "n", "f">>
     THEN [kind |-> "inf", num |-> sign, den |-> 1]
     ELSE IF Len(ip) + Len(fp) > 0
     THEN [kind |-> "num",
           num |-> sign * (BaseValue(ip, 10) * Pow10(Len(fp))
                           + BaseValue(fp, 10)),
           den |-> Pow10(Len(fp))]
     ELSE [kind |-> "none", num |-> 0, den |-> 1]

\* format %.0f of num/den, for a value within [from, to]: round half to even.
RoundHalfEven(num, den) ==
  LET q == num \div den
      r == num % den
  IN IF 2 * r < den THEN q
     ELSE IF 2 * r > den THEN q + 1
     ELSE IF q % 2 = 0 THEN q ELSE q + 1

\* ttk::spinbox::Spin with -from 2 -to 5 -increment 1 -wrap 0 and no
\* -values: the new text of the field.
SpinText(s, dir) ==
  LET v == ScanF(s)
      num == IF v.kind = "num" THEN v.num + dir * v.den ELSE 0
      n == IF v.kind = "none" THEN MIN_MATRIX_SIZE
           ELSE IF v.kind = "inf"
           THEN (IF v.num < 0 THEN MIN_MATRIX_SIZE ELSE MAX_MATRIX_SIZE)
           ELSE IF num < MIN_MATRIX_SIZE * v.den THEN MIN_MATRIX_SIZE
           ELSE IF num > MAX_MATRIX_SIZE * v.den THEN MAX_MATRIX_SIZE
           ELSE RoundHalfEven(num, v.den)
  IN Numeral(n)

\* ------------------------------------------------------------- the state

VARIABLES
  size_var,      \* content of the Tcl variable behind the IntVar size_var
  text,          \* content of the spinbox field size_spin (textvariable)
  results_text,  \* content of the results Text widget
  lastOp,        \* history: the operation handled last
  ret,           \* history: what the last call of _validate_size returned
  raised,        \* history: the exception that left the last handler
  typed,         \* history: what was inserted into the field just cleared
  arg,           \* the string a direct caller (a unit test) passes in
  matrix,        \* the matrix handed to Invert
  outcome,       \* what Invert returned
  verified       \* what IsCloseToIdentity(Multiply(matrix, inverse)) returned

vars == <<size_var, text, results_text, lastOp, ret, raised, typed, arg,
          matrix, outcome, verified>>

core == <<matrix, outcome, verified>>

Placeholder == [kind |-> "placeholder", rows |-> <<>>]
NoOutcome == [kind |-> "none", inv |-> <<>>, col |-> 0]
NoTyped == [class |-> "none", s |-> <<>>]
Cleared == [class |-> "cleared", s |-> <<>>]

\* --------------------------------------------------------- _validate_size

\* _validate_size with the upper bound excluded (val < MAX_MATRIX_SIZE).
ValidateSizeExclusiveMax(s) ==
  IF s = <<>> THEN "True"
  ELSE LET val == PyInt(s)
       IN IF val.ok
          THEN (IF MIN_MATRIX_SIZE <= val.val /\ val.val < MAX_MATRIX_SIZE
                THEN "True" ELSE "False")
          ELSE "False"

\* _validate_size(value_if_allowed): "True" or "False"; the ValueError of
\* int() is caught and gives "False".
ValidateSize(s) ==
  IF s = <<>> THEN "True"
  ELSE LET val == PyInt(s)
       IN IF val.ok
          THEN (IF MIN_MATRIX_SIZE <= val.val /\ val.val <= MAX_MATRIX_SIZE
                THEN "True" ELSE "False")
          ELSE "False"

\* ------------------------------------------------------ _ensure_valid_size

\* size_var.set(n): the variable holds str(n).
IntVarSet(n) == Numeral(n)

\* _ensure_valid_size whose except branch does nothing (except: pass).
EnsureValidSizeNoReset(s) ==
  LET current_value == IntVarGet(s)
  IN CASE current_value.kind = "int" ->
            [var |-> IF current_value.val < MIN_MATRIX_SIZE
                       THEN IntVarSet(MIN_MATRIX_SIZE)
                     ELSE IF current_value.val > MAX_MATRIX_SIZE
                       THEN IntVarSet(MAX_MATRIX_SIZE)
                     ELSE s,
             raised |-> "none"]
       [] OTHER -> [var |-> s, raised |-> "none"]

\* _ensure_valid_size whose second test compares with the wrong constant
\* (elif current_value > MIN_MATRIX_SIZE).
EnsureValidSizeWrongBound(s) ==
  LET current_value == IntVarGet(s)
  IN CASE current_value.kind = "int" ->
            [var |-> IF current_value.val < MIN_MATRIX_SIZE
                       THEN IntVarSet(MIN_MATRIX_SIZE)
                     ELSE IF current_value.val > MIN_MATRIX_SIZE
                       THEN IntVarSet(MAX_MATRIX_SIZE)
                     ELSE s,
             raised |-> "none"]
       [] current_value.kind = "TclError" ->
            [var |-> IntVarSet(DEFAULT_MATRIX_SIZE), raised |-> "none"]
       [] OTHER ->
            [var |-> s, raised |-> current_value.kind]

\* _ensure_valid_size without its elif branch: no clamp from above.
EnsureValidSizeNoUpperClamp(s) ==
  LET current_value == IntVarGet(s)
  IN CASE current_value.kind = "int" ->
            [var |-> IF current_value.val < MIN_MATRIX_SIZE
                       THEN IntVarSet(MIN_MATRIX_SIZE)
                     ELSE s,
             raised |-> "none"]
       [] current_value.kind = "TclError" ->
            [var |-> IntVarSet(DEFAULT_MATRIX_SIZE), raised |-> "none"]
       [] OTHER ->
            [var |-> s, raised |-> current_value.kind]

\* _ensure_valid_size on content s: the new content of size_var and the
\* exception that leaves the handler.  Only tk.TclError is caught.
EnsureValidSize(s) ==
  LET current_value == IntVarGet(s)
  IN CASE current_value.kind = "int" ->
            [var |-> IF current_value.val < MIN_MATRIX_SIZE
                       THEN IntVarSet(MIN_MATRIX_SIZE)
                     ELSE IF current_value.val > MAX_MATRIX_SIZE
                       THEN IntVarSet(MAX_MATRIX_SIZE)
                     ELSE s,
             raised |-> "none"]
       [] current_value.kind = "TclError" ->
            [var |-> IntVarSet(DEFAULT_MATRIX_SIZE), raised |-> "none"]
       [] OTHER ->
            [var |-> s, raised |-> current_value.kind]

\* ------------------------------------------------ the spinbox and its edits

\* The class of an inserted string, as history: rejected strings by what
\* int() makes of them, accepted ones with the string itself.
TypedAs(s) ==
  LET val == PyInt(s)
  IN IF ~val.ok THEN [class |-> "text", s |-> <<>>]
     ELSE IF val.val < MIN_MATRIX_SIZE THEN [class |-> "low", s |-> <<>>]
     ELSE IF val.val > MAX_MATRIX_SIZE THEN [class |-> "high", s |-> <<>>]
     ELSE [class |-> "ok", s |-> s]

\* A spinbox built without validatecommand: every edit is applied.
EditUnvalidated(P, kind, hist) ==
  /\ ret' = ValidateSize(P)
  /\ text' = P
  /\ size_var' = P
  /\ lastOp' = kind
  /\ raised' = "none"
  /\ typed' = hist
  /\ UNCHANGED <<results_text, arg, core>>

\* An insertion or deletion proposing content P (validate="all", %P): the
\* change is applied, to the field and to its textvariable, only when the
\* validatecommand returns true.
Edit(P, kind, hist) ==
  LET ok == ValidateSize(P)
  IN /\ ret' = ok
     /\ IF ok = "True"
        THEN text' = P /\ size_var' = P
        ELSE UNCHANGED <<text, size_var>>
     /\ lastOp' = kind
     /\ raised' = "none"
     /\ typed' = hist
     /\ UNCHANGED <<results_text, arg, core>>

\* size_spin.insert(i, s), a keystroke or a paste.
Insert ==
  \E i \in 0..Len(text) :
    \E s \in Strings(MaxIns) \ {<<>>} :
      /\ Len(text) + Len(s) <= MaxField
      /\ Edit(SubSeq(text, 1, i) \o s \o SubSeq(text, i + 1, Len(text)),
              "insert",
              IF typed = Cleared /\ text = <<>> THEN TypedAs(s) ELSE NoTyped)

\* size_spin.delete(i, j), BackSpace, Delete: characters i+1..j go.
Delete ==
  \E i \in 0..(Len(text) - 1) :
    \E j \in (i + 1)..Len(text) :
      Edit(SubSeq(text, 1, i) \o SubSeq(text, j + 1, Len(text)),
           "delete",
           IF i = 0 /\ j = Len(text) /\ ValidateSize(<<>>) = "True"
             THEN Cleared ELSE NoTyped)

\* An arrow button, <Up>/<Down> or the mouse wheel: the widget's set, which
\* runs no validatecommand.
Spin ==
  \E dir \in {-1, 1} :
    /\ text' = SpinText(text, dir)
    /\ size_var' = text'
    /\ lastOp' = "spin"
    /\ ret' = "none"
    /\ raised' = "none"
    /\ typed' = NoTyped
    /\ UNCHANGED <<results_text, arg, core>>

\* The handler bound to <FocusOut> and to <Return>; the write to size_var
\* reaches the field through the textvariable trace.  validated is what the
\* widget's own validation of the event, if any, returned.
Commit(kind, validated) ==
  LET r == EnsureValidSize(size_var)
  IN /\ size_var' = r.var
     /\ text' = r.var
     /\ raised' = r.raised
     /\ lastOp' = kind
     /\ ret' = validated
     /\ UNCHANGED <<results_text, typed, arg, core>>

\* Focus leaves the field: with validate="all" the widget first runs the
\* validatecommand on its content (the answer only marks the field invalid),
\* then the binding runs the handler.
FocusOut == Commit("focusout", ValidateSize(text))

\* The Return key: the handler alone.
Return == Commit("return", ret)

\* Focus enters the field: the validatecommand runs on the content, and no
\* handler is bound.
FocusIn ==
  /\ ret' = ValidateSize(text)
  /\ lastOp' = "focusin"
  /\ raised' = "none"
  /\ typed' = NoTyped
  /\ UNCHANGED <<size_var, text, results_text, arg, core>>

\* The "Compute Inverse" and "Clear" buttons are created without a command.
ComputeInverse ==
  /\ lastOp' = "compute"
  /\ ret' = "none"
  /\ raised' = "none"
  /\ typed' = NoTyped
  /\ UNCHANGED <<size_var, text, results_text, arg, core>>

Clear ==
  /\ lastOp' = "clear"
  /\ ret' = "none"
  /\ raised' = "none"
  /\ typed' = NoTyped
  /\ UNCHANGED <<size_var, text, results_text, arg, core>>

\* The state after MatrixInverseApp.__init__.
Init ==
  /\ size_var = IntVarSet(DEFAULT_MATRIX_SIZE)
  /\ text = size_var
  /\ results_text = Placeholder
  /\ lastOp = "init"
  /\ ret = "none"
  /\ raised = "none"
  /\ typed = NoTyped
  /\ arg = <<>>
  /\ matrix = <<>>
  /\ outcome = NoOutcome
  /\ verified = "none"

Next ==
  \/ Insert
  \/ Delete
  \/ Spin
  \/ FocusIn
  \/ FocusOut
  \/ Return
  \/ ComputeInverse
  \/ Clear

Spec == Init /\ [][Next]_vars

\* ---------------------------------------- direct calls, as the unit tests

\* self.app.size_var.set(arg)
UnitSet ==
  /\ size_var' = arg
  /\ text' = arg
  /\ lastOp' = "set"
  /\ raised' = "none"
  /\ UNCHANGED <<results_text, ret, typed, arg, core>>

\* self.app._validate_size(arg)
UnitValidate ==
  /\ ret' = ValidateSize(arg)
  /\ lastOp' = "validate"
  /\ raised' = IF ret' \in {"True", "False"} THEN "none" ELSE ret'
  /\ UNCHANGED <<size_var, text, results_text, typed, arg, core>>

\* self.app._ensure_valid_size()
UnitEnsure ==
  LET r == EnsureValidSize(size_var)
  IN /\ size_var' = r.var
     /\ text' = r.var
     /\ raised' = r.raised
     /\ lastOp' = IF lastOp \in {"ensure", "ensure2"} THEN "ensure2"
                  ELSE "ensure"
     /\ UNCHANGED <<results_text, ret, typed, arg, core>>

UnitInit ==
  /\ arg \in Strings(MaxLen)
  /\ size_var = IntVarSet(DEFAULT_MATRIX_SIZE)
  /\ text = size_var
  /\ results_text = Placeholder
  /\ lastOp = "init"
  /\ ret = "none"
  /\ raised = "none"
  /\ typed = NoTyped
  /\ matrix = <<>>
  /\ outcome = NoOutcome
  /\ verified = "none"

UnitNext == UnitSet \/ UnitValidate \/ UnitEnsure

SpecUnit == UnitInit /\ [][UnitNext]_vars

\* ------------------------------------------------- the inversion routine
\* Gauss-Jordan elimination with partial pivoting and its verifier, as the
\* specification describes them (sections 4.1 and 4.2).  Arithmetic is exact,
\* over rationals n/d in lowest terms with d > 0.

\* The pivot threshold is 10^-PivotThresholdExp, the verifier's tolerance
\* 10^-ToleranceExp.
PivotThresholdExp == 12
ToleranceExp == 9

Abs(x) == IF x < 0 THEN -x ELSE x

RECURSIVE Gcd(_, _)
Gcd(a, b) == IF b = 0 THEN a ELSE Gcd(b, a % b)

Rat(n, d) ==
  LET g == Gcd(Abs(n), Abs(d))
      sg == IF d < 0 THEN -1 ELSE 1
  IN [n |-> sg * (n \div g), d |-> sg * (d \div g)]

RInt(i) == [n |-> i, d |-> 1]
RZero == RInt(0)
ROne == RInt(1)
RAdd(a, b) == Rat(a.n * b.d + b.n * a.d, a.d * b.d)
RSub(a, b) == Rat(a.n * b.d - b.n * a.d, a.d * b.d)
RMul(a, b) == Rat(a.n * b.n, a.d * b.d)
RRecip(a) == Rat(a.d, a.n)
RAbs(a) == [n |-> Abs(a.n), d |-> a.d]
RLess(a, b) == a.n * b.d < b.n * a.d

RECURSIVE DivPow10(_, _)
DivPow10(x, k) == IF k = 0 THEN x ELSE DivPow10(x \div 10, k - 1)

\* a < 10^-e and a <= 10^-e, for a rational a >= 0.
BelowPow10(a, e) == a.n <= DivPow10(a.d - 1, e)
WithinPow10(a, e) == a.n <= DivPow10(a.d, e)

Entries == (-MaxEntry)..MaxEntry

\* What a caller may hand over: one or two rows of one or two entries each,
\* or nothing at all.
Rows == UNION {[1..c -> Entries] : c \in 1..2}
Inputs == {<<>>} \cup UNION {[1..r -> Rows] : r \in 1..2}

\* Input validation, first failing check first.  Entries are numbers here,
\* so the non-numeric check has nothing to reject.
Validate(m) ==
  IF m = <<>> \/ \E i \in 1..Len(m) : m[i] = <<>> THEN "empty-input"
  ELSE IF \E i \in 1..Len(m) : Len(m[i]) # Len(m[1]) THEN "ragged-rows"
  ELSE IF Len(m) # Len(m[1]) THEN "non-square"
  ELSE IF Len(m) < MIN_MATRIX_SIZE \/ Len(m) > MAX_MATRIX_SIZE
    THEN "size-out-of-bounds"
  ELSE "ok"

ToRat(m) == [i \in 1..Len(m) |-> [j \in 1..Len(m[i]) |-> RInt(m[i][j])]]

\* The n x 2n augmented matrix: a copy of the input, then the identity.
Augment(m) ==
  LET n == Len(m)
  IN [i \in 1..n |->
       [j \in 1..(2 * n) |->
          IF j <= n THEN RInt(m[i][j])
          ELSE IF j - n = i THEN ROne ELSE RZero]]

\* Pivot selection: the first row of k..n whose entry in column k has the
\* largest absolute value.
PivotRow(aug, k, n) ==
  CHOOSE r \in k..n :
    /\ \A q \in k..n : ~RLess(RAbs(aug[r][k]), RAbs(aug[q][k]))
    /\ \A q \in k..(r - 1) : RLess(RAbs(aug[q][k]), RAbs(aug[r][k]))

SwapRows(aug, a, b) == [aug EXCEPT ![a] = aug[b], ![b] = aug[a]]

\* Row k times the reciprocal of the pivot.
Normalize(aug, k) ==
  LET recip == RRecip(aug[k][k])
  IN [aug EXCEPT ![k] = [j \in DOMAIN aug[k] |-> RMul(aug[k][j], recip)]]

\* Every other row r minus aug[r][k] times row k; a zero factor is skipped.
Eliminate(aug, k, n) ==
  [r \in 1..n |->
     IF r = k \/ aug[r][k] = RZero THEN aug[r]
     ELSE [j \in 1..(2 * n) |->
             RSub(aug[r][j], RMul(aug[r][k], aug[k][j]))]]

\* The elimination returning what it has built so far when it meets a
\* singular column.
RECURSIVE ReduceKeepsPartial(_, _, _)
ReduceKeepsPartial(aug, k, n) ==
  IF k > n
  THEN [kind |-> "ok",
        inv |-> [i \in 1..n |-> [j \in 1..n |-> aug[i][n + j]]],
        col |-> 0]
  ELSE LET pivot_row == PivotRow(aug, k, n)
       IN IF BelowPow10(RAbs(aug[pivot_row][k]), PivotThresholdExp)
          THEN [kind |-> "singular",
                inv |-> [i \in 1..n |-> [j \in 1..n |-> aug[i][n + j]]],
                col |-> k]
          ELSE ReduceKeepsPartial(
                 Eliminate(Normalize(SwapRows(aug, k, pivot_row), k), k, n),
                 k + 1, n)

\* Columns k..n, one after the other.  col is the column at which the
\* matrix was found singular.
RECURSIVE Reduce(_, _, _)
Reduce(aug, k, n) ==
  IF k > n
  THEN [kind |-> "ok",
        inv |-> [i \in 1..n |-> [j \in 1..n |-> aug[i][n + j]]],
        col |-> 0]
  ELSE LET pivot_row == PivotRow(aug, k, n)
       IN IF BelowPow10(RAbs(aug[pivot_row][k]), PivotThresholdExp)
          THEN [kind |-> "singular", inv |-> <<>>, col |-> k]
          ELSE Reduce(Eliminate(Normalize(SwapRows(aug, k, pivot_row), k),
                                k, n),
                      k + 1, n)

Invert(m) ==
  LET v == Validate(m)
  IN IF v # "ok" THEN [kind |-> v, inv |-> <<>>, col |-> 0]
     ELSE Reduce(Augment(m), 1, Len(m))

RECURSIVE RSum(_, _)
RSum(f, k) == IF k = 0 THEN RZero ELSE RAdd(RSum(f, k - 1), f[k])

\* The matrix product; the columns of A must be as many as the rows of B.
Multiply(A, B) ==
  IF A = <<>> \/ B = <<>> \/ \E i \in 1..Len(A) : Len(A[i]) # Len(B)
  THEN [kind |-> "dimension-mismatch", rows |-> <<>>]
  ELSE [kind |-> "ok",
        rows |-> [i \in 1..Len(A) |->
                    [j \in 1..Len(B[1]) |->
                       RSum([k \in 1..Len(B) |-> RMul(A[i][k], B[k][j])],
                            Len(B))]]]

\* M is square, its diagonal within 10^-e of 1 and the rest within 10^-e of 0.
IsCloseToIdentity(M, e) ==
  /\ M # <<>>
  /\ \A i \in 1..Len(M) : Len(M[i]) = Len(M)
  /\ \A i \in 1..Len(M) : \A j \in 1..Len(M) :
       WithinPow10(RAbs(RSub(M[i][j], IF i = j THEN ROne ELSE RZero)),
                   ToleranceExp)

\* Invert(matrix)
CallInvert ==
  /\ lastOp = "init"
  /\ outcome' = Invert(matrix)
  /\ lastOp' = "invert"
  /\ UNCHANGED <<size_var, text, results_text, ret, raised, typed, arg,
                 matrix, verified>>

\* IsCloseToIdentity(Multiply(matrix, Invert(matrix)))
CallVerify ==
  /\ lastOp = "invert"
  /\ outcome.kind = "ok"
  /\ LET product == Multiply(ToRat(matrix), outcome.inv)
     IN verified' = IF product.kind = "ok"
                       /\ IsCloseToIdentity(product.rows, ToleranceExp)
                    THEN "True" ELSE "False"
  /\ lastOp' = "verify"
  /\ UNCHANGED <<size_var, text, results_text, ret, raised, typed, arg,
                 matrix, outcome>>

InvInit ==
  /\ matrix \in Inputs
  /\ outcome = NoOutcome
  /\ verified = "none"
  /\ size_var = IntVarSet(DEFAULT_MATRIX_SIZE)
  /\ text = size_var
  /\ results_text = Placeholder
  /\ lastOp = "init"
  /\ ret = "none"
  /\ raised = "none"
  /\ typed = NoTyped
  /\ arg = <<>>

InvNext == CallInvert \/ CallVerify

SpecInv == InvInit /\ [][InvNext]_vars

\* ------------------------------------------------------------ the claims

InRange(v) == MIN_MATRIX_SIZE <= v /\ v <= MAX_MATRIX_SIZE

\* size_var.get() returns the integer v.
Holds(content, v) == IntVarGet(content) = [kind |-> "int", val |-> v]

Clamp(v) ==
  IF v < MIN_MATRIX_SIZE THEN MIN_MATRIX_SIZE
  ELSE IF v > MAX_MATRIX_SIZE THEN MAX_MATRIX_SIZE ELSE v

Committed == lastOp \in {"focusout", "return"}

\* C1: from the default size, after any sequence of edits of the spinbox
\* that ends with a FocusOut or a Return event, size_var holds an integer n
\* with 2 <= n <= 5.
C1_CommittedSizeInRange ==
  Committed =>
    /\ IntVarGet(size_var).kind = "int"
    /\ InRange(IntVarGet(size_var).val)
    /\ raised = "none"

\* The field was cleared, a value below the range was typed, focus left.
C1_Witness ==
  /\ lastOp = "focusout"
  /\ typed.class = "low"
  /\ Holds(size_var, DEFAULT_MATRIX_SIZE)

\* C2 (as claimed): after the field is cleared, an integer outside [2,5] is
\* typed and focus leaves, size_var is the nearest bound: 5 for a value
\* above 5, 2 for a value below 2.
C2_FocusOutGivesNearestBound ==
  lastOp = "focusout" =>
    /\ typed.class = "high" => Holds(size_var, MAX_MATRIX_SIZE)
    /\ typed.class = "low" => Holds(size_var, MIN_MATRIX_SIZE)

\* C3: after the field is cleared, an integer v with 2 <= v <= 5 is typed
\* (text that size_var reads as v) and focus leaves, size_var equals v and
\* its content is the typed text, unchanged.
C3_FocusOutKeepsInRangeValue ==
  (lastOp = "focusout" /\ typed.class = "ok" /\ TclGetInt(typed.s).ok) =>
    /\ size_var = typed.s
    /\ text = typed.s
    /\ Holds(size_var, PyInt(typed.s).val)
    /\ InRange(PyInt(typed.s).val)

\* "4" was typed into the cleared field and focus left.
C3_Witness ==
  /\ lastOp = "focusout"
  /\ typed = [class |-> "ok", s |-> <<"4">>]
  /\ size_var = <<"4">>

\* Runs of spaces, and runs of zeros each optionally followed by one "_".
Spaces(n) == UNION {[1..k -> {" "}] : k \in 0..n}

RECURSIVE ZeroPrefixes(_)
ZeroPrefixes(n) ==
  IF n <= 0 THEN {<<>>}
  ELSE {<<>>} \cup {<<"0">> \o z : z \in ZeroPrefixes(n - 1)}
              \cup (IF n >= 2
                    THEN {<<"0", "_">> \o z : z \in ZeroPrefixes(n - 2)}
                    ELSE {})

\* The decimal literals, of length at most n, of the integers 2..5: optional
\* spaces, leading zeros, the digit, optional spaces.
InRangeLiterals(n) ==
  {t \in {l \o z \o <<d>> \o r :
            l \in Spaces(n - 1), z \in ZeroPrefixes(n - 1),
            d \in {"2", "3", "4", "5"}, r \in Spaces(n - 1)} :
     Len(t) <= n}

\* C4: _validate_size(s) returns True if and only if s is the empty string
\* or s is the text of an integer v with 2 <= v <= 5; for every other
\* string it returns False, and it never raises.
C4_ValidateSizeIff ==
  lastOp = "validate" =>
    /\ ret \in {"True", "False"}
    /\ raised = "none"
    /\ ret = "True" <=> (arg = <<>> \/ arg \in InRangeLiterals(Len(arg)))

\* _validate_size("-1") has returned False.
C4_Witness ==
  /\ lastOp = "validate"
  /\ arg = <<"-", "1">>
  /\ ret = "False"

\* C5: when size_var holds an integer v, one call of _ensure_valid_size
\* leaves it equal to min(max(v, 2), 5), with its content untouched when v
\* is already in [2,5]; a second call changes nothing.
C5_EnsureClampsAndIsIdempotent ==
  [][/\ (lastOp' \in {"ensure", "ensure2"}
          /\ IntVarGet(size_var).kind = "int") =>
          /\ Holds(size_var', Clamp(IntVarGet(size_var).val))
          /\ InRange(IntVarGet(size_var).val) => size_var' = size_var
          /\ raised' = "none"
     /\ (lastOp' = "ensure2" /\ IntVarGet(size_var).kind = "int") =>
          size_var' = size_var]_vars

\* size_var.set(10), then two calls of _ensure_valid_size.
C5_Witness ==
  /\ lastOp = "ensure2"
  /\ arg = <<"1", "0">>
  /\ size_var = <<"5">>

\* C6 (as claimed): when size_var holds content that cannot be read as an
\* integer, _ensure_valid_size lets no error out and resets size_var to the
\* default size 3.
C6_EnsureResetsUnreadableContent ==
  [][(lastOp' \in {"ensure", "ensure2"}
       /\ IntVarGet(size_var).kind # "int") =>
       /\ raised' = "none"
       /\ size_var' = IntVarSet(DEFAULT_MATRIX_SIZE)]_vars

\* C9: an edit of the spinbox whose proposed content _validate_size rejects
\* has no effect: the field's text and size_var keep their values.
C9_RejectedEditChangesNothing ==
  [][(lastOp' \in {"insert", "delete"} /\ ret' # "True") =>
       (text' = text /\ size_var' = size_var)]_vars

\* An insertion into the field holding "3" has been rejected.
C9_Witness ==
  /\ lastOp = "insert"
  /\ ret = "False"
  /\ text = <<"3">>
  /\ size_var = <<"3">>

\* C10 (as claimed): in every reachable state the spinbox content is empty
\* or the text of an integer in [2,5]; size_var never holds an out-of-range
\* integer, and the only content it cannot read as an integer is the empty
\* string.
C10_ContentAlwaysEmptyOrInRange ==
  /\ text = <<>> \/ (PyInt(text).ok /\ InRange(PyInt(text).val))
  /\ size_var = text
  /\ IntVarGet(size_var).kind = "int" => InRange(IntVarGet(size_var).val)
  /\ IntVarGet(size_var).kind # "int" => size_var = <<>>

\* The determinant of a 2 x 2 matrix of integers.
Det2(m) == m[1][1] * m[2][2] - m[1][2] * m[2][1]

\* C7 (as claimed): the Compute Inverse action delivers, to the results area,
\* the inverse of a non-singular matrix A, a matrix R such that
\* Multiply(A, R) is within 1e-9 of the identity.
C7_ComputeDeliversInverse ==
  lastOp = "compute" =>
    /\ results_text.kind = "matrix"
    /\ \E A \in Inputs :
         /\ Invert(A).kind = "ok"
         /\ results_text.rows = Invert(A).inv
         /\ Multiply(ToRat(A), results_text.rows).kind = "ok"
         /\ IsCloseToIdentity(Multiply(ToRat(A), results_text.rows).rows,
                              ToleranceExp)

\* C8: when a pivot column has no entry of absolute value 1e-12 or more in
\* the rows left (for these matrices: when the determinant is 0), Invert
\* fails with a singular-matrix error and returns no partial inverse; so
\* does Invert([[1,2],[1,2]]).
C8_SingularMatrixFails ==
  (lastOp = "invert" /\ Validate(matrix) = "ok") =>
    /\ Det2(matrix) = 0 =>
         (outcome.kind = "singular" /\ outcome.col \in 1..Len(matrix))
    /\ outcome.kind = "singular" => outcome.inv = <<>>
    /\ matrix = <<<<1, 2>>, <<1, 2>>>> => outcome.kind = "singular"

\* Invert([[1,2],[1,2]]) has failed at the second pivot column.
C8_Witness ==
  /\ lastOp = "invert"
  /\ matrix = <<<<1, 2>>, <<1, 2>>>>
  /\ outcome = [kind |-> "singular", inv |-> <<>>, col |-> 2]

====
